---- MODULE Spec2Model ----
(***************************************************************************)
(* Model of catbee-tree-router (src/src/tree-router.js): Route nodes with  *)
(* a set-once parent link, the RouteRegistry keyed by route name, the      *)
(* route factory, and the TreeRouterService path reconstruction.           *)
(*                                                                         *)
(* JavaScript strings are modelled as sequences of one-character strings,  *)
(* so that concatenation, prefix tests and substitution are computed and   *)
(* not assumed.  Route objects are identified by their index in `routes`   *)
(* (creation order); 0 stands for null.                                    *)
(***************************************************************************)
EXTENDS Integers, Sequences, FiniteSets, TLC

\* Bound of the model: how many Route objects a behaviour constructs.
MaxRoutes == 3

VARIABLES
  routes,       \* every Route constructed so far: [url, name, handler, parent]
  registry,     \* RouteRegistry._routes: <<[key, route]>> in insertion order
  firstParent,  \* history: the first route ever assigned as parent of each route
  outcome       \* the last operation performed, its arguments and its result

vars == <<routes, registry, firstParent, outcome>>

----------------------------------------------------------------------------
(* Strings *)

Slash == "/"
Colon == ":"
QMark == "?"
Amp   == "&"
Eq    == "="

\* null / undefined for string-valued results and for an omitted name.
Null == <<"null">>
\* What a diverging path() recursion produces: V8 ends it with
\* "RangeError: Maximum call stack size exceeded".
RangeError == <<"RangeError">>

Digits == {"0", "1", "2", "3", "4", "5", "6", "7", "8", "9"}

startsWith(s, c) == Len(s) > 0 /\ s[1] = c
endsWith(s, c) == Len(s) > 0 /\ s[Len(s)] = c

\* s.substr(0, s.length - 1)
dropLast(s) == SubSeq(s, 1, Len(s) - 1)

\* Is pat a substring of s starting at position k (1-based)?
occursAt(s, pat, k) ==
  /\ k >= 1
  /\ k + Len(pat) - 1 <= Len(s)
  /\ SubSeq(s, k, k + Len(pat) - 1) = pat

\* String.prototype.indexOf(pat), 1-based; 0 when pat does not occur.
indexOf(s, pat) ==
  LET hits == {k \in 1..Len(s) : occursAt(s, pat, k)}
  IN IF hits = {} THEN 0 ELSE CHOOSE k \in hits : \A j \in hits : k <= j

\* String.prototype.split(sep) for a one-character separator.
RECURSIVE split(_, _)
split(s, sep) ==
  LET k == indexOf(s, <<sep>>)
  IN IF k = 0 THEN <<s>>
     ELSE <<SubSeq(s, 1, k - 1)>> \o split(SubSeq(s, k + 1, Len(s)), sep)

\* String.prototype.replace(pat, rep) with a string pattern: the first
\* occurrence only.  (No "$" occurs in the replacements drawn here, so the
\* special replacement patterns play no part.)
replaceFirst(s, pat, rep) ==
  LET k == indexOf(s, pat)
  IN IF k = 0 THEN s
     ELSE SubSeq(s, 1, k - 1) \o rep \o SubSeq(s, k + Len(pat), Len(s))

\* Object.assign(a, b) on objects as functions from keys to values.
assign(a, b) ==
  [k \in DOMAIN a \cup DOMAIN b |-> IF k \in DOMAIN b THEN b[k] ELSE a[k]]

EmptyObject == <<>>

----------------------------------------------------------------------------
(* catberry-uri URI and the pattern compiler of catbee's routeHelper, as    *)
(* the router uses them: a template or request string is split into its    *)
(* path and its query, the path into segments.                              *)

\* new URI(string): path before the first "?", the query after it.
URI(str) ==
  LET q == indexOf(str, <<QMark>>)
  IN [path  |-> IF q = 0 THEN str ELSE SubSeq(str, 1, q - 1),
      query |-> IF q = 0 THEN Null ELSE SubSeq(str, q + 1, Len(str))]

\* uri.query.values: key -> value of the "key=value" pairs.
queryValues(query) ==
  IF query = Null THEN EmptyObject
  ELSE LET pairs == split(query, Amp)
           withEq == {k \in DOMAIN pairs : indexOf(pairs[k], <<Eq>>) > 0}
           keyOf(k) == SubSeq(pairs[k], 1, indexOf(pairs[k], <<Eq>>) - 1)
           valOf(k) == SubSeq(pairs[k], indexOf(pairs[k], <<Eq>>) + 1,
                              Len(pairs[k]))
       IN [key \in {keyOf(k) : k \in withEq} |->
             valOf(CHOOSE k \in withEq :
                     /\ keyOf(k) = key
                     /\ \A j \in withEq : keyOf(j) = key => j <= k)]

isParameter(segment) == Len(segment) > 1 /\ segment[1] = Colon
parameterName(segment) == SubSeq(segment, 2, Len(segment))

\* compileRoute(routeUri): the template's path segments and, per query key
\* whose value is a parameter reference, the parameter's name.
compileRoute(routeUri) ==
  LET values == queryValues(routeUri.query)
  IN [segments |-> split(routeUri.path, Slash),
      query    |-> [key \in {k \in DOMAIN values : isParameter(values[k])} |->
                      parameterName(values[key])]]

\* compiled.expression.test(path)
test(compiled, p) ==
  LET segs == split(p, Slash)
      tmpl == compiled.segments
  IN /\ Len(segs) = Len(tmpl)
     /\ \A k \in DOMAIN tmpl :
          IF isParameter(tmpl[k]) THEN segs[k] # <<>> ELSE segs[k] = tmpl[k]

\* compiled.map(uri): parameter name -> value, from the path segments of a
\* matching path and from the query keys present in uri.
map(compiled, uri) ==
  LET segs == split(uri.path, Slash)
      tmpl == compiled.segments
      posAt == IF test(compiled, uri.path)
               THEN {k \in DOMAIN tmpl : isParameter(tmpl[k])}
               ELSE {}
      positional == [n \in {parameterName(tmpl[k]) : k \in posAt} |->
                       segs[CHOOSE k \in posAt : parameterName(tmpl[k]) = n]]
      given == queryValues(uri.query)
      keys == DOMAIN compiled.query \cap DOMAIN given
      fromQuery == [n \in {compiled.query[k] : k \in keys} |->
                      given[CHOOSE k \in keys : compiled.query[k] = n]]
  IN assign(positional, fromQuery)

----------------------------------------------------------------------------
(* catbee/lib/helpers/routeHelper.removeEndSlash, as the route factory     *)
(* uses it: a trailing slash of the template is dropped, "/" is kept.      *)

removeEndSlash(uriPath) ==
  IF uriPath = <<Slash>> THEN uriPath
  ELSE IF endsWith(uriPath, Slash) THEN dropLast(uriPath)
  ELSE uriPath

----------------------------------------------------------------------------
(* class Route *)

\* constructor (url, name, handler)
Route(url, name, handler) ==
  [url     |-> IF startsWith(url, Slash) THEN url ELSE <<Slash>> \o url,
   name    |-> name,
   handler |-> handler,
   parent  |-> 0]

\* get name (): this._name || this._url  (null and '' are both falsy)
routeName(r) == IF r.name = Null \/ r.name = <<>> THEN r.url ELSE r.name

\* A setter without the guard: every assignment takes effect.
setParentOverwrite(rs, child, parent) ==
  [rs EXCEPT ![child].parent = parent]

\* set parent (parent): a no-op once this._parent is truthy
setParent(rs, child, parent) ==
  IF rs[child].parent # 0 THEN rs
  ELSE [rs EXCEPT ![child].parent = parent]

\* path() that keeps the parent's trailing slash.
RECURSIVE pathFromKeepSlash(_, _, _)
pathFromKeepSlash(rs, i, depth) ==
  IF depth > Len(rs) THEN RangeError
  ELSE IF rs[i].parent = 0 THEN rs[i].url
  ELSE LET parentPath == pathFromKeepSlash(rs, rs[i].parent, depth + 1)
       IN IF parentPath = RangeError THEN RangeError
          ELSE parentPath \o rs[i].url

\* path (): the recursion over this.parent.  depth counts the frames; a chain
\* longer than the number of routes revisits a route, so the recursion never
\* returns and the call ends in a RangeError.
RECURSIVE pathFrom(_, _, _)
pathFrom(rs, i, depth) ==
  IF depth > Len(rs) THEN RangeError
  ELSE IF rs[i].parent = 0 THEN rs[i].url
  ELSE LET parentPath == pathFrom(rs, rs[i].parent, depth + 1)
       IN IF parentPath = RangeError THEN RangeError
          ELSE (IF endsWith(parentPath, Slash) THEN dropLast(parentPath)
                ELSE parentPath) \o rs[i].url

path(rs, i) == pathFrom(rs, i, 1)

\* _compiledPath (): routeHelper.compileRoute(new URI(this.path()))
compiledPath(rs, i) == compileRoute(URI(path(rs, i)))

\* matches() that compiles the local template instead of path().
matchesLocal(rs, i, p) ==
  IF path(rs, i) = RangeError THEN [err |-> "RangeError", ret |-> FALSE]
  ELSE [err |-> "none", ret |-> test(compileRoute(URI(rs[i].url)), p)]

\* matches (path)
matches(rs, i, p) ==
  IF path(rs, i) = RangeError THEN [err |-> "RangeError", ret |-> FALSE]
  ELSE [err |-> "none", ret |-> test(compiledPath(rs, i), p)]

RouteNameKey == <<"r", "o", "u", "t", "e", "N", "a", "m", "e">>

\* handle() that applies the extracted parameters after the static args.
handleStaticFirst(rs, i, uri) ==
  IF path(rs, i) = RangeError THEN [err |-> "RangeError"]
  ELSE [err    |-> "none",
        signal |-> rs[i].handler.signal,
        args   |-> assign(assign([k \in {RouteNameKey} |-> routeName(rs[i])],
                                 rs[i].handler.args),
                          map(compiledPath(rs, i), URI(uri)))]

\* handle (uri): Object.assign({ routeName: this.name }, uriArgs, handler.args)
handle(rs, i, uri) ==
  IF path(rs, i) = RangeError THEN [err |-> "RangeError"]
  ELSE [err    |-> "none",
        signal |-> rs[i].handler.signal,
        args   |-> assign(assign([k \in {RouteNameKey} |-> routeName(rs[i])],
                                 map(compiledPath(rs, i), URI(uri))),
                          rs[i].handler.args)]

\* toString (): evaluates this.path(), so it throws when path() does.
routeToStringThrows(rs, i) == path(rs, i) = RangeError

----------------------------------------------------------------------------
(* class RouteRegistry.  _routes is an object without prototype; it is     *)
(* modelled as the sequence of its properties in insertion order.          *)

keysOf(reg) == {reg[k].key : k \in DOMAIN reg}

\* byName (name): this._routes[name]; 0 when there is no such property
byName(reg, name) ==
  IF name \in keysOf(reg)
  THEN reg[CHOOSE k \in DOMAIN reg : reg[k].key = name].route
  ELSE 0

\* addRoute (route): [reg, err].  The DuplicatedRouteError constructor
\* formats the route with toString() before the error exists.
addRoute(reg, rs, r) ==
  IF routeName(rs[r]) \in keysOf(reg)
  THEN [reg |-> reg,
        err |-> IF routeToStringThrows(rs, r) THEN "RangeError"
                ELSE "DuplicatedRouteError"]
  ELSE [reg |-> Append(reg, [key |-> routeName(rs[r]), route |-> r]),
        err |-> "none"]

\* An integer-like property name ("array index"): a canonical decimal
\* numeral.  (The names drawn here are far below 2^32 - 1.)
isArrayIndex(key) ==
  /\ Len(key) > 0
  /\ \A k \in DOMAIN key : key[k] \in Digits
  /\ Len(key) = 1 \/ key[1] # "0"

digitValue(c) ==
  CASE c = "0" -> 0 [] c = "1" -> 1 [] c = "2" -> 2 [] c = "3" -> 3
    [] c = "4" -> 4 [] c = "5" -> 5 [] c = "6" -> 6 [] c = "7" -> 7
    [] c = "8" -> 8 [] c = "9" -> 9

RECURSIVE toNumber(_)
toNumber(key) ==
  IF key = <<>> THEN 0
  ELSE 10 * toNumber(dropLast(key)) + digitValue(key[Len(key)])

RECURSIVE ascending(_, _)
ascending(reg, positions) ==
  IF positions = {} THEN <<>>
  ELSE LET k == CHOOSE k \in positions : \A j \in positions :
                  toNumber(reg[k].key) <= toNumber(reg[j].key)
       IN <<reg[k]>> \o ascending(reg, positions \ {k})

\* for (let routeName in this._routes): the order in which the engine
\* enumerates the properties of an ordinary object: integer-like names in
\* ascending numeric order, then the other names in insertion order.
forIn(reg) ==
  ascending(reg, {k \in DOMAIN reg : isArrayIndex(reg[k].key)})
    \o SelectSeq(reg, LAMBDA e : ~isArrayIndex(e.key))

RECURSIVE firstMatch(_, _, _, _)
firstMatch(order, rs, p, k) ==
  IF k > Len(order) THEN [err |-> "none", ret |-> 0]
  ELSE LET m == matches(rs, order[k].route, p)
       IN IF m.err # "none" THEN [err |-> m.err, ret |-> 0]
          ELSE IF m.ret THEN [err |-> "none", ret |-> order[k].route]
          ELSE firstMatch(order, rs, p, k + 1)

\* matchingRoute (path): 0 stands for null
matchingRoute(reg, rs, p) == firstMatch(forIn(reg), rs, p, 1)

----------------------------------------------------------------------------
(* class TreeRouterService.  args is the sequence of the <<key, value>>     *)
(* properties of the args object in Object.keys order; an omitted args is   *)
(* the empty sequence (args || {}).                                         *)

RECURSIVE replaceFrom(_, _, _)
replaceFrom(acc, args, k) ==
  IF k > Len(args) THEN acc
  ELSE replaceFrom(replaceFirst(acc, <<Colon>> \o args[k][1], args[k][2]),
                   args, k + 1)

\* _replaceParams (path, args)
replaceParams(p, args) == replaceFrom(p, args, 1)

\* named (name, args)
named(reg, rs, name, args) ==
  LET found == byName(reg, name)
  IN IF found = 0 THEN [err |-> "none", ret |-> Null]
     ELSE IF path(rs, found) = RangeError
          THEN [err |-> "RangeError", ret |-> Null]
          ELSE [err |-> "none", ret |-> replaceParams(path(rs, found), args)]

\* parent (name, args)
parentPath(reg, rs, name, args) ==
  LET current == byName(reg, name)
      parent == IF current # 0 THEN rs[current].parent ELSE 0
  IN IF parent = 0 THEN [err |-> "none", ret |-> Null]
     ELSE IF path(rs, parent) = RangeError
          THEN [err |-> "RangeError", ret |-> Null]
          ELSE [err |-> "none", ret |-> replaceParams(path(rs, parent), args)]

----------------------------------------------------------------------------
(* Inputs *)

RouteIds == 1..Len(routes)

\* signal(name, args): args || {}
signal(name, args) == [signal |-> name, args |-> args]

PlainHandler == signal("mainPage", <<>>)

\* Templates for the tree construction: with and without the leading and
\* the trailing slash.
TreeUrls == { <<Slash>>, <<"a">> }
FactoryUrls == { <<Slash>>, <<Slash, "a", Slash>> }

\* Matching: a literal and a parameter segment, and request paths with one
\* to three segments, one of them with an empty last segment.
MatchUrls == { <<"a">>, <<Colon, "i">> }
MatchPaths ==
  { <<Slash, "a">>, <<Slash, "a", Slash, "a">>, <<Slash, "a", Slash, "x">>,
    <<Slash, "a", Slash>>, <<Slash, "a", Slash, "a", Slash, "x">> }

\* Handling: route definitions (template, props) whose static args, extracted
\* parameters and synthesized routeName collide, and request URIs with and
\* without the query parameter.
HandleDefs ==
  { [url |-> <<Slash, Colon, "i">>, name |-> Null,
     handler |-> signal("s", [k \in {<<"i">>} |-> <<"s">>])],
    [url |-> <<Slash, "a", QMark, "q", Eq, Colon, "j">>, name |-> <<"n">>,
     handler |-> signal("s", EmptyObject)],
    [url |-> <<Slash, Colon>> \o RouteNameKey, name |-> Null,
     handler |-> signal("s", EmptyObject)],
    [url |-> <<Slash, "a">>, name |-> Null,
     handler |-> signal("t", [k \in {RouteNameKey} |-> <<"s">>])] }
HandleUris ==
  { <<Slash, "x">>, <<Slash, "a">>, <<Slash, "a", QMark, "q", Eq, "x">>,
    <<Slash, "a", Slash, "x">> }

\* Registry: integer-like names, a route named by its template, and
\* templates whose parameter names share a prefix.
RegistryDefs ==
  { [url |-> <<Slash, Colon, "i">>, name |-> <<"2">>],
    [url |-> <<Slash, Colon, "i", "x">>, name |-> <<"1">>],
    [url |-> <<Slash, Colon, "i">>, name |-> Null] }
RegistryPaths == { <<Slash, "x">>, <<Slash, "x", Slash, "x">> }
LookupNames == { <<"1">>, <<"2">>, <<Slash, Colon, "i">> }
\* args omitted, and { i: '7' }
LookupArgs == { <<>>, << <<<<"i">>, <<"7">>>> >> }

----------------------------------------------------------------------------
(* Operations *)

Init ==
  /\ routes = <<>>
  /\ registry = <<>>
  /\ firstParent = <<>>
  /\ outcome = [op |-> "init", err |-> "none"]

\* new Route(url, name, handler)
NewRoute(url, name, handler) ==
  /\ Len(routes) < MaxRoutes
  /\ routes' = Append(routes, Route(url, name, handler))
  /\ firstParent' = Append(firstParent, 0)
  /\ outcome' = [op |-> "new", err |-> "none"]
  /\ UNCHANGED registry

\* child.parent = parent
SetParent(child, parent) ==
  /\ routes' = setParent(routes, child, parent)
  /\ firstParent' = IF firstParent[child] = 0
                    THEN [firstParent EXCEPT ![child] = parent]
                    ELSE firstParent
  /\ outcome' = [op |-> "setParent", err |-> "none",
                 ignored |-> /\ routes[child].parent # 0
                             /\ parent # 0
                             /\ parent # routes[child].parent]
  /\ UNCHANGED registry

\* route(url, props, children) of routeFactory(routeRegistry): the new route
\* becomes the parent of each child and is then registered; when addRoute
\* throws, the assignments already made stay.  children is the set of the
\* routes listed: each assignment touches its own child only, so neither the
\* order of the list nor a repetition in it matters.
RouteFactory(url, props, children) ==
  /\ Len(routes) < MaxRoutes
  /\ LET current == Len(routes) + 1
         made == Append(routes,
                        Route(removeEndSlash(url), props.name, props.handler))
         linked == [i \in DOMAIN made |->
                      IF i \in children THEN setParent(made, i, current)[i]
                      ELSE made[i]]
         added == addRoute(registry, linked, current)
     IN /\ routes' = linked
        /\ firstParent' = [i \in DOMAIN made |->
                             IF i = current THEN 0
                             ELSE IF i \in children /\ firstParent[i] = 0
                                  THEN current
                                  ELSE firstParent[i]]
        /\ registry' = added.reg
        /\ outcome' = [op |-> "route", err |-> added.err,
                       ignored |-> \E c \in children : routes[c].parent # 0]

\* registry.addRoute(route)
AddRoute(r) ==
  /\ LET added == addRoute(registry, routes, r)
     IN /\ registry' = added.reg
        /\ outcome' = [op |-> "addRoute", route |-> r, err |-> added.err]
  /\ UNCHANGED <<routes, firstParent>>

\* route.path()
PathOf(r) ==
  /\ outcome' = [op |-> "path", route |-> r,
                 err |-> IF path(routes, r) = RangeError THEN "RangeError"
                         ELSE "none",
                 ret |-> path(routes, r)]
  /\ UNCHANGED <<routes, registry, firstParent>>

\* route.matches(path)
Matches(r, p) ==
  /\ outcome' = [op |-> "matches", route |-> r, path |-> p,
                 err |-> matches(routes, r, p).err,
                 ret |-> matches(routes, r, p).ret]
  /\ UNCHANGED <<routes, registry, firstParent>>

\* route.handle(uri)
Handle(r, uri) ==
  /\ outcome' = [op |-> "handle", route |-> r, uri |-> uri,
                 res |-> handle(routes, r, uri)]
  /\ UNCHANGED <<routes, registry, firstParent>>

\* registry.matchingRoute(path)
MatchingRoute(p) ==
  /\ outcome' = [op |-> "matchingRoute", path |-> p,
                 err |-> matchingRoute(registry, routes, p).err,
                 ret |-> matchingRoute(registry, routes, p).ret]
  /\ UNCHANGED <<routes, registry, firstParent>>

\* treeRouter.named(name, args)
Named(name, args) ==
  /\ outcome' = [op |-> "named", name |-> name, args |-> args,
                 err |-> named(registry, routes, name, args).err,
                 ret |-> named(registry, routes, name, args).ret]
  /\ UNCHANGED <<routes, registry, firstParent>>

\* treeRouter.parent(name, args)
ParentPath(name, args) ==
  /\ outcome' = [op |-> "parent", name |-> name, args |-> args,
                 err |-> parentPath(registry, routes, name, args).err,
                 ret |-> parentPath(registry, routes, name, args).ret]
  /\ UNCHANGED <<routes, registry, firstParent>>

\* Tree construction: routes named by their templates, built with the
\* constructor, the parent setter and the route factory.
Next ==
  \/ \E url \in TreeUrls : NewRoute(url, Null, PlainHandler)
  \/ \E c \in RouteIds, p \in RouteIds \cup {0} : SetParent(c, p)
  \/ \E url \in FactoryUrls, children \in SUBSET RouteIds :
       RouteFactory(url, [name |-> Null, handler |-> PlainHandler], children)

Spec == Init /\ [][Next]_vars

\* Tree construction with path() read at any moment.
NextPath ==
  \/ Next
  \/ \E r \in RouteIds : PathOf(r)

SpecPath == Init /\ [][NextPath]_vars

\* Routes linked by the parent setter and tested against request paths.
NextMatch ==
  \/ \E url \in MatchUrls : NewRoute(url, Null, PlainHandler)
  \/ \E c \in RouteIds, p \in RouteIds \cup {0} : SetParent(c, p)
  \/ \E r \in RouteIds, p \in MatchPaths : Matches(r, p)

SpecMatch == Init /\ [][NextMatch]_vars

\* Trees declared with the route factory, handling request URIs.
NextHandle ==
  \/ \E def \in HandleDefs, children \in SUBSET RouteIds :
       RouteFactory(def.url, [name |-> def.name, handler |-> def.handler],
                    children)
  \/ \E r \in RouteIds, uri \in HandleUris : Handle(r, uri)

SpecHandle == Init /\ [][NextHandle]_vars

\* Named routes registered by hand and looked up by path and by name.
NextRegistry ==
  \/ \E def \in RegistryDefs : NewRoute(def.url, def.name, PlainHandler)
  \/ \E c \in RouteIds, p \in RouteIds \cup {0} : SetParent(c, p)
  \/ \E r \in RouteIds : AddRoute(r)
  \/ \E p \in RegistryPaths : MatchingRoute(p)
  \/ \E name \in LookupNames, args \in LookupArgs : Named(name, args)
  \/ \E name \in LookupNames, args \in LookupArgs : ParentPath(name, args)

SpecRegistry == Init /\ [][NextRegistry]_vars

----------------------------------------------------------------------------
(* The parent relation *)

\* The k-th ancestor of route i (i itself for k = 0); 0 past the root.
RECURSIVE ancestorAt(_, _, _)
ancestorAt(rs, i, k) ==
  IF i = 0 \/ k = 0 THEN i ELSE ancestorAt(rs, rs[i].parent, k - 1)

\* Route i and every route above it.
chainOf(rs, i) == {ancestorAt(rs, i, k) : k \in 0..Len(rs)} \ {0}

\* Following parents from i ends at a route without parent.
finiteChain(rs, i) == \E a \in chainOf(rs, i) : rs[a].parent = 0

\* The number of routes above i in a finite chain.
depthOf(rs, i) ==
  CHOOSE k \in 0..Len(rs) :
    ancestorAt(rs, i, k) # 0 /\ rs[ancestorAt(rs, i, k)].parent = 0

\* The local templates from the k-th ancestor of i down to i, joined from the
\* top: the text so far loses one trailing slash before the next template.
RECURSIVE joinDown(_, _, _, _)
joinDown(rs, i, k, acc) ==
  IF k = 0 THEN acc
  ELSE joinDown(rs, i, k - 1,
                (IF endsWith(acc, Slash) THEN dropLast(acc) ELSE acc)
                  \o rs[ancestorAt(rs, i, k - 1)].url)

composedPath(rs, i) ==
  joinDown(rs, i, depthOf(rs, i), rs[ancestorAt(rs, i, depthOf(rs, i))].url)

----------------------------------------------------------------------------
(* C3: in a finite acyclic parent chain, path() is the local templates of    *)
(* the chain joined from the most distant ancestor down to the route: a      *)
(* route without parent yields its own template; a child yields its parent's *)
(* full path less one trailing "/" followed by its own template (a child     *)
(* "/a" of the root "/" yields "/a", a child "/a" of "/a" yields "/a/a").    *)
PathComposesAncestors ==
  /\ \A i \in RouteIds :
       finiteChain(routes, i) =>
         /\ path(routes, i) = composedPath(routes, i)
         /\ routes[i].parent = 0 => path(routes, i) = routes[i].url
         /\ routes[i].parent # 0 =>
              LET above == composedPath(routes, routes[i].parent)
              IN path(routes, i) =
                   (IF above[Len(above)] = Slash
                    THEN SubSeq(above, 1, Len(above) - 1)
                    ELSE above) \o routes[i].url
         /\ (routes[i].parent # 0 /\ routes[routes[i].parent].parent = 0
             /\ routes[i].url = <<Slash, "a">>) =>
              /\ routes[routes[i].parent].url = <<Slash>>
                   => path(routes, i) = <<Slash, "a">>
              /\ routes[routes[i].parent].url = <<Slash, "a">>
                   => path(routes, i) = <<Slash, "a", Slash, "a">>
  /\ (outcome.op = "path" /\ finiteChain(routes, outcome.route)) =>
       /\ outcome.err = "none"
       /\ outcome.ret = composedPath(routes, outcome.route)

\* path() was called on a route two levels below a root, under a parent
\* whose own full path ends with a slash.
PathOfGrandchildSeen ==
  /\ outcome.op = "path"
  /\ outcome.err = "none"
  /\ LET i == outcome.route
     IN /\ routes[i].parent # 0
        /\ routes[routes[i].parent].parent # 0
        /\ endsWith(path(routes, routes[i].parent), Slash)
        /\ Len(outcome.ret) > Len(routes[i].url)

(* C8: parent assignment is set-once: after any sequence of assignments,    *)
(* by the setter or by the route factory, a route's parent is the first     *)
(* route that was assigned to it; later assignments change nothing and      *)
(* raise nothing.                                                           *)
ParentIsFirstAssigned ==
  /\ \A i \in RouteIds : routes[i].parent = firstParent[i]
  /\ outcome.op = "setParent" => outcome.err = "none"

\* A second, different parent was assigned to a route that had one.
LaterAssignmentIgnored ==
  /\ outcome.op \in {"setParent", "route"}
  /\ outcome.ignored
  /\ \E i \in RouteIds : routes[i].parent # 0

(* C9: in every state reachable by route creations and parent assignments   *)
(* (setter and route factory) the parent relation is acyclic, so path()     *)
(* terminates for every route.                                              *)
ParentRelationAcyclic ==
  \A i \in RouteIds :
    /\ finiteChain(routes, i)
    /\ path(routes, i) # RangeError

----------------------------------------------------------------------------
(* Matching and handling *)

\* The path part of a template: what precedes its query.
templatePath(tmpl) ==
  IF indexOf(tmpl, <<QMark>>) = 0 THEN tmpl
  ELSE SubSeq(tmpl, 1, indexOf(tmpl, <<QMark>>) - 1)

\* p has the segments of the template: as many, the literal ones identical,
\* a non-empty one wherever the template has a parameter.
sameSegments(tmpl, p) ==
  LET t == split(templatePath(tmpl), Slash)
      s == split(p, Slash)
  IN /\ Len(s) = Len(t)
     /\ \A k \in 1..Len(t) :
          \/ isParameter(t[k]) /\ Len(s[k]) > 0
          \/ ~isParameter(t[k]) /\ s[k] = t[k]

(* C7: matches(p) is true iff p has exactly the segments of the route's     *)
(* FULL path (the templates of all its ancestors and its own), literal      *)
(* segments identical and each ":name" segment standing for one non-empty   *)
(* segment; neither a prefix nor the local template alone is accepted.      *)
MatchesFullPathExactly ==
  outcome.op = "matches" =>
    LET r == outcome.route
        top == routes[r].parent
    IN /\ (outcome.err = "none" /\ outcome.ret)
            <=> /\ finiteChain(routes, r)
                /\ sameSegments(composedPath(routes, r), outcome.path)
       /\ (top # 0 /\ routes[top].parent = 0
           /\ routes[top].url = <<Slash, "a">>) =>
            /\ routes[r].url = <<Slash, "a">> =>
                 outcome.ret = (outcome.path = <<Slash, "a", Slash, "a">>)
            /\ routes[r].url = <<Slash, Colon, "i">> =>
                 outcome.ret = (outcome.path \in { <<Slash, "a", Slash, "a">>,
                                                    <<Slash, "a", Slash, "x">> })

\* A child route matched a path that its local template alone does not.
ChildMatchedComposedPath ==
  /\ outcome.op = "matches"
  /\ outcome.err = "none"
  /\ outcome.ret
  /\ routes[outcome.route].parent # 0
  /\ ~sameSegments(routes[outcome.route].url, outcome.path)

(* C4: handle(uri) returns the handler's signal and the args merged from    *)
(* routeName (the route's name), then the parameters extracted from uri     *)
(* against the route's full path, then the handler's static args: on a      *)
(* common key the later source wins.  A query parameter of the template     *)
(* that uri does not carry contributes no key.                              *)
HandleMergesInPrecedence ==
  (outcome.op = "handle" /\ outcome.res.err = "none") =>
    LET r == outcome.route
        static == routes[r].handler.args
        uri == URI(outcome.uri)
        compiled == compileRoute(URI(composedPath(routes, r)))
        extracted == map(compiled, uri)
        args == outcome.res.args
    IN /\ outcome.res.signal = routes[r].handler.signal
       /\ DOMAIN args = {RouteNameKey} \cup DOMAIN extracted \cup DOMAIN static
       /\ \A k \in DOMAIN args :
            args[k] = IF k \in DOMAIN static THEN static[k]
                      ELSE IF k \in DOMAIN extracted THEN extracted[k]
                      ELSE routeName(routes[r])
       /\ \A q \in DOMAIN compiled.query :
            (/\ q \notin DOMAIN queryValues(uri.query)
             /\ compiled.query[q] \notin DOMAIN static
             /\ \A k \in DOMAIN compiled.segments :
                  isParameter(compiled.segments[k]) =>
                    parameterName(compiled.segments[k]) # compiled.query[q])
              => compiled.query[q] \notin DOMAIN args

\* handle() returned args in which a static arg replaced the value that the
\* request carried for the same key.
StaticArgOverrodeParameter ==
  /\ outcome.op = "handle"
  /\ outcome.res.err = "none"
  /\ LET r == outcome.route
         extracted == map(compiledPath(routes, r), URI(outcome.uri))
     IN \E k \in DOMAIN extracted \cap DOMAIN routes[r].handler.args :
          /\ extracted[k] # routes[r].handler.args[k]
          /\ outcome.res.args[k] = routes[r].handler.args[k]

----------------------------------------------------------------------------
(* Registry and lookups *)

(* C1: matchingRoute(p) returns the earliest-registered route whose         *)
(* matches(p) is true at the time of the lookup, and null exactly when no   *)
(* registered route matches.  (Stated for the lookups that return.)         *)
FirstRegisteredMatchWins ==
  (outcome.op = "matchingRoute" /\ outcome.err = "none") =>
    LET hits == {k \in DOMAIN registry :
                   /\ matches(routes, registry[k].route, outcome.path).err = "none"
                   /\ matches(routes, registry[k].route, outcome.path).ret}
    IN outcome.ret =
         IF hits = {} THEN 0
         ELSE registry[CHOOSE k \in hits : \A j \in hits : k <= j].route

(* C2: addRoute(node) under a name the registry already holds raises        *)
(* DuplicatedRouteError and leaves the registry as it was; under a free     *)
(* name it registers node and leaves every other entry as it was.           *)
AddRouteRejectsDuplicates ==
  [][outcome'.op = "addRoute" =>
       LET r == outcome'.route
           nm == routeName(routes[r])
       IN IF nm \in keysOf(registry)
          THEN /\ outcome'.err = "DuplicatedRouteError"
               /\ registry' = registry
          ELSE /\ outcome'.err = "none"
               /\ byName(registry', nm) = r
               /\ keysOf(registry') = keysOf(registry) \cup {nm}
               /\ \A n \in keysOf(registry) :
                    byName(registry', n) = byName(registry, n)]_vars

isNameChar(c) == c \notin {Slash, Colon, QMark, Amp, Eq}

\* The length of the run of name characters of s that starts at position k.
RECURSIVE nameRun(_, _)
nameRun(s, k) ==
  IF k > Len(s) \/ ~isNameChar(s[k]) THEN 0 ELSE 1 + nameRun(s, k + 1)

\* Every ":name" token of s whose name is a key of args replaced by the
\* key's value, in one pass; everything else kept.
RECURSIVE substituteTokens(_, _)
substituteTokens(s, args) ==
  IF s = <<>> THEN <<>>
  ELSE IF s[1] = Colon
  THEN LET n == nameRun(s, 2)
           name == SubSeq(s, 2, n + 1)
           hit == {k \in DOMAIN args : args[k][1] = name}
       IN (IF n > 0 /\ hit # {} THEN args[CHOOSE k \in hit : TRUE][2]
           ELSE <<Colon>> \o name)
            \o substituteTokens(SubSeq(s, n + 2, Len(s)), args)
  ELSE <<s[1]>> \o substituteTokens(Tail(s), args)

\* The route whose path a lookup reconstructs: the named one, or its parent.
lookupTarget ==
  LET found == byName(registry, outcome.name)
  IN IF outcome.op = "named" \/ found = 0 THEN found
     ELSE routes[found].parent

(* C5: named(name, args) and parent(name, args) return the full path with   *)
(* every ":key" token replaced by args[key] for each key of args; a key     *)
(* that is no parameter token of the path leaves it untouched, also when a  *)
(* parameter occurs twice or a key is a proper prefix of a parameter name.  *)
(* (Stated for the lookups that return a string.)                           *)
LookupSubstitutesEveryToken ==
  (outcome.op \in {"named", "parent"} /\ outcome.err = "none"
   /\ outcome.ret # Null) =>
    outcome.ret = substituteTokens(path(routes, lookupTarget), outcome.args)

(* C6: lookups by name never raise: parent() returns null for an unknown    *)
(* name and for a route without parent, named() returns null for an unknown *)
(* name, and both return a string otherwise, in every registry state and    *)
(* with args omitted.                                                       *)
LookupsNeverRaise ==
  outcome.op \in {"named", "parent"} =>
    /\ outcome.err = "none"
    /\ (outcome.ret = Null) <=> (lookupTarget = 0)

====
